---------------------------- MODULE Spec2Model ----------------------------
(***************************************************************************)
(* Model of src/src/js/translations.js (class TranslationManager): the     *)
(* language resolver (init, loadLanguage, loadFallback, switchLanguage,    *)
(* getAvailableLanguages) as a state machine over the asynchronous steps   *)
(* of each call, and the key lookup t as an operator; and of deploy.sh,     *)
(* the deployment script, as the sequence of its steps.                    *)
(*                                                                         *)
(* JavaScript strings are sequences of one-character strings, so that      *)
(* split('.'), split('-') and the {name} substitution are computed, not    *)
(* assumed.  JSON values are tagged records [tag, val].                    *)
(***************************************************************************)
EXTENDS Integers, Sequences, FiniteSets, Bags, TLC

\* ------------------------------------------------------------------ bounds
\* Longest generated key path / template string (in characters).
MaxKeyLen == 3
MaxStrLen == 3
\* Calls started in one behaviour, and calls in flight at the same time.
MaxCalls == 2
MaxInFlight == 2

\* ----------------------------------------------------------------- strings
\* All sequences over alphabet A of length <= n.
RECURSIVE SeqsUpTo(_, _)
SeqsUpTo(A, n) ==
    IF n = 0 THEN { << >> }
    ELSE LET S == SeqsUpTo(A, n - 1)
         IN  S \cup { Append(s, a) : s \in { x \in S : Len(x) = n - 1 }, a \in A }

\* String.prototype.split(sep) for a one-character separator: the pieces
\* between separators, empty pieces kept ("a..b" -> "a", "", "b"; "" -> "").
RECURSIVE SplitFrom(_, _, _, _)
SplitFrom(s, sep, i, cur) ==
    IF i > Len(s) THEN << cur >>
    ELSE IF s[i] = sep THEN << cur >> \o SplitFrom(s, sep, i + 1, << >>)
    ELSE SplitFrom(s, sep, i + 1, Append(cur, s[i]))

Split(s, sep) == SplitFrom(s, sep, 1, << >>)

\* The characters the regular expression class \w matches, as far as the
\* model's alphabet goes (letters, digits, underscore).
WordChars ==
    { "a", "b", "c", "d", "e", "f", "g", "h", "i", "j", "k", "l", "m",
      "n", "o", "p", "q", "r", "s", "t", "u", "v", "w", "x", "y", "z",
      "A", "B", "C", "D", "E", "F", "G", "H", "I", "J", "K", "L", "M",
      "N", "O", "P", "Q", "R", "S", "T", "U", "V", "W", "X", "Y", "Z",
      "0", "1", "2", "3", "4", "5", "6", "7", "8", "9", "_" }

DigitChars == << "0", "1", "2", "3", "4", "5", "6", "7", "8", "9" >>

\* Number -> decimal string (String(n) for a non-negative integer).
RECURSIVE NatToString(_)
NatToString(n) ==
    IF n < 10 THEN << DigitChars[n + 1] >>
    ELSE Append(NatToString(n \div 10), DigitChars[(n % 10) + 1])

\* ------------------------------------------------------------- JSON values
Str(s) == [tag |-> "string", val |-> s]
Num(n) == [tag |-> "number", val |-> n]
Obj(m) == [tag |-> "object", val |-> m]
JsNull == [tag |-> "null", val |-> 0]
\* A built-in function object, by its name.
JsFunction(name) == [tag |-> "function", val |-> name]
Undefined == [tag |-> "undefined", val |-> 0]

EmptyObject == Obj(<< >>)

\* typeof value === 'object' holds of objects and of null.
TypeofObject(v) == v.tag \in {"object", "null"}
\* JavaScript truthiness of a value (`value && ...`).
Truthy(v) ==
    CASE v.tag = "null" -> FALSE
      [] v.tag = "undefined" -> FALSE
      [] v.tag = "string" -> v.val # << >>
      [] v.tag = "number" -> v.val # 0
      [] OTHER -> TRUE

\* Properties every object created by JSON.parse or an object literal
\* inherits from Object.prototype (two of them): constructor is the function
\* Object, toString the function toString.
ConstructorKey == << "c", "o", "n", "s", "t", "r", "u", "c", "t", "o", "r" >>
ToStringKey == << "t", "o", "S", "t", "r", "i", "n", "g" >>
ObjectPrototypeKeys == { ConstructorKey, ToStringKey }
InheritedProp(k) ==
    IF k = ConstructorKey THEN JsFunction(<< "O", "b", "j", "e", "c", "t" >>) ELSE JsFunction(k)

\* An own property of an object.
HasOwnKey(k, v) == k \in DOMAIN v.val
\* `k in value` for an object: own and inherited properties.
KeyIn(k, v) == HasOwnKey(k, v) \/ k \in ObjectPrototypeKeys

\* value[k]: the own property, else the inherited one, else undefined.
GetProp(v, k) ==
    IF HasOwnKey(k, v) THEN v.val[k]
    ELSE IF k \in ObjectPrototypeKeys THEN InheritedProp(k)
    ELSE Undefined

\* What String(v) gives (the conversion String.prototype.replace applies to
\* the value its callback returns).
NativeFunctionText(name) ==
    << "f", "u", "n", "c", "t", "i", "o", "n", " " >> \o name
        \o << "(", ")", " ", "{", " ", "[", "n", "a", "t", "i", "v", "e", " ", "c", "o", "d", "e", "]", " ", "}" >>
ObjectText == << "[", "o", "b", "j", "e", "c", "t", " ", "O", "b", "j", "e", "c", "t", "]" >>
ToDisplay(v) ==
    CASE v.tag = "string" -> v.val
      [] v.tag = "number" -> NatToString(v.val)
      [] v.tag = "function" -> NativeFunctionText(v.val)
      [] v.tag = "null" -> << "n", "u", "l", "l" >>
      [] OTHER -> ObjectText

\* ------------------------------------------------------------ t(key, params)
\* The end of the token /{(\w+)}/ that starts at s[i] = "{": the index of its
\* closing brace, or 0 when no token starts at i.
RECURSIVE WordEnd(_, _)
WordEnd(s, j) ==
    IF j <= Len(s) /\ s[j] \in WordChars THEN WordEnd(s, j + 1) ELSE j

TokenEnd(s, i) ==
    IF s[i] # "{" THEN 0
    ELSE LET j == WordEnd(s, i + 1)
         IN  IF j > i + 1 /\ j <= Len(s) /\ s[j] = "}" THEN j ELSE 0

\* The replace callback: (match, param) => params[param] !== undefined ?
\* params[param] : match, its result converted to a string.
ReplaceToken(match, param, params) ==
    IF GetProp(params, param).tag # "undefined"
    THEN ToDisplay(GetProp(params, param))
    ELSE match

\* value.replace(/{(\w+)}/g, callback): one left-to-right pass, the
\* replacement text is not scanned again.
RECURSIVE ReplaceFrom(_, _, _)
ReplaceFrom(s, i, params) ==
    IF i > Len(s) THEN << >>
    ELSE LET j == TokenEnd(s, i)
         IN  IF j = 0
             THEN << s[i] >> \o ReplaceFrom(s, i + 1, params)
             ELSE ReplaceToken(SubSeq(s, i, j), SubSeq(s, i + 1, j - 1), params)
                      \o ReplaceFrom(s, j + 1, params)

Interpolate(s, params) == ReplaceFrom(s, 1, params)

\* The loop over the segments: descends while the value is a truthy object
\* having the segment; NotFound when it cannot.
NotFound == [tag |-> "notfound", val |-> 0]

RECURSIVE Walk(_, _, _)
Walk(value, keys, i) ==
    IF i > Len(keys) THEN value
    ELSE IF Truthy(value) /\ TypeofObject(value) /\ KeyIn(keys[i], value)
         THEN Walk(GetProp(value, keys[i]), keys, i + 1)
         ELSE NotFound

\* t(key, params) against bundle `trans`: a JS value (the key itself, as a
\* string, when the walk fails).
T(trans, key, params) ==
    LET value == Walk(trans, Split(key, "."), 1)
    IN  IF value.tag = "notfound" THEN Str(key)
        ELSE IF value.tag = "string" THEN Str(Interpolate(value.val, params))
        ELSE value

\* --------------------------------------------------------- resolver state
VARIABLES
    translations,   \* this.translations: the active bundle (a JSON value)
    currentLang,    \* this.currentLang (a JS string)
    stored,         \* localStorage['entityManagerLang']: a JS string or null
    storageThrows,  \* the browser refuses localStorage access (it throws)
    calls,          \* the asynchronous calls in flight: a bag of call records
    started,        \* how many calls have been started so far
    tKey,           \* the last t(key, params) call: its key,
    tParams,        \*   its params
    tResult,        \*   and what it returned
    tAgain,         \* what the same call returned when it was made once more
    script          \* one run of the deployment script (deploy.sh)

vars ==
    << translations, currentLang, stored, storageThrows, calls, started,
       tKey, tParams, tResult, tAgain, script >>

resolverVars == << translations, currentLang, stored >>
lookupVars == << tKey, tParams, tResult, tAgain >>

\* Language codes, as strings of characters.
En == << "e", "n" >>
Fr == << "f", "r" >>
De == << "d", "e" >>
Langs == { En, Fr, De }
\* The codes callers pass to switchLanguage and loadLanguage.
RequestLangs == { En, Fr }

\* this.fallbackLang, set in the constructor and never assigned again.
fallbackLang == Str(En)

\* static/translations/<code>.json as the server holds it.
ServerFile(code) ==
    LET greeting ==
            CASE code = En -> << "H", "i", " ", "{", "x", "}" >>
              [] code = Fr -> << "S", "a", "l", "u", "t", " ", "{", "x", "}" >>
              [] OTHER -> << "H", "a", "l", "l", "o", " ", "{", "x", "}" >>
    IN  Obj(<< "a" >> :> Obj(<< "b" >> :> Str(greeting)))

\* How a fetch can end: a success status, a non-success status (404), or a
\* rejected promise (network error).
FetchOutcomes == { "ok", "status", "neterr" }

NoEnv == [url |-> JsNull, language |-> Undefined, userLanguage |-> Undefined]

\* A call record before anything is filled in.
Idle ==
    [kind |-> "idle", pc |-> "idle", lang |-> JsNull, env |-> NoEnv,
     haLang |-> JsNull, reqOk |-> FALSE, fb |-> "none", evs |-> << >>,
     raised |-> FALSE, solo |-> FALSE, latest |-> FALSE, nFetch |-> 0,
     doc |-> Undefined, ret |-> Undefined]

\* The deployment script before it is run: no arguments, nothing configured,
\* no step taken.
NoDotEnv == [exists |-> FALSE, sets |-> FALSE, host |-> ""]
NotRun ==
    [pc |-> "notrun", argv |-> << >>, environ |-> "", dotEnv |-> NoDotEnv,
     CROWDIN_SYNC |-> FALSE, HA_HOST |-> "", exitCode |-> 0, ran |-> << >>]

\* The state the constructor leaves.
Init ==
    /\ translations = EmptyObject
    /\ currentLang = Str(En)
    /\ storageThrows \in BOOLEAN
    /\ stored \in (IF storageThrows THEN { JsNull } ELSE { JsNull, Str(Fr) })
    /\ calls = EmptyBag
    /\ started = 0
    /\ tKey = << >>
    /\ tParams = EmptyObject
    /\ tResult = Undefined
    /\ tAgain = Undefined
    /\ script = NotRun

\* ------------------------------------------------------------- operations
\* A call that another call has been started after: it is neither alone nor
\* the most recently requested one.
Overtaken(r) == [r EXCEPT !.solo = FALSE, !.latest = FALSE]

\* A new call enters, in the state `rec`.  It is alone (solo) when no other
\* call is in flight, and the most recently requested one (latest) until
\* the next call is started.
Begin(rec) ==
    /\ BagCardinality(calls) < MaxInFlight
    /\ started < MaxCalls
    /\ started' = started + 1
    /\ calls' =
         BagOfAll(Overtaken, calls)
            (+) SetToBag({ [rec EXCEPT !.solo = (calls = EmptyBag), !.latest = TRUE] })

\* Call r moves on to the state r2.
Step(r, r2) == calls' = (calls (-) SetToBag({ r })) (+) SetToBag({ r2 })

\* The state of a call that has just issued the fetch of loadLanguage(lang).
Fetching(kind, lang) ==
    [Idle EXCEPT !.kind = kind, !.pc = "fetch", !.lang = lang, !.nFetch = 1]

\* Where the caller of loadLanguage goes on when it returns: switchLanguage
\* still has its event to dispatch, init and a direct call are finished.
AfterLoad(kind) == IF kind = "switch" THEN "notify" ELSE "done"

\* A variant of getHALanguage() that looks at the store before the URL.
GetHALanguageStoreFirst(url) ==
    IF ~storageThrows /\ Truthy(stored) THEN stored
    ELSE IF Truthy(url) THEN url
    ELSE JsNull

\* getHALanguage(): the URL's lang parameter, else the stored preference,
\* else null; null too when localStorage throws (the catch block).
GetHALanguage(url) ==
    IF Truthy(url) THEN url
    ELSE IF storageThrows THEN JsNull
    ELSE IF Truthy(stored) THEN stored
    ELSE JsNull

\* navigator.language || navigator.userLanguage || 'en'
BrowserLang(env) ==
    IF Truthy(env.language) THEN env.language
    ELSE IF Truthy(env.userLanguage) THEN env.userLanguage
    ELSE Str(En)

\* haLang || browserLang.split('-')[0]
ChooseLang(haLang, env) ==
    IF Truthy(haLang) THEN haLang
    ELSE Str(Split(BrowserLang(env).val, "-")[1])

\* The page's URL parameter and the browser's locale settings init() may meet.
Urls == { JsNull, Str(<< >>), Str(De) }
Navigators ==
    { [language |-> l, userLanguage |-> u] :
        l \in { Undefined, Str(<< "d", "e", "-", "D", "E" >>) },
        u \in { Undefined, Str(Fr) } }

\* init(), up to its first await: getHALanguage() has read the URL and
\* the store.
InitStart ==
    \E url \in Urls, nav \in Navigators :
        /\ Begin([Idle EXCEPT !.kind = "init", !.pc = "initResume",
                              !.env = [url |-> url, language |-> nav.language,
                                       userLanguage |-> nav.userLanguage],
                              !.haLang = GetHALanguage(url)])
        /\ UNCHANGED << resolverVars, storageThrows, lookupVars, script >>

\* init() after the await: picks the language and calls loadLanguage, which
\* issues its fetch.
InitResume(r) ==
    /\ r.pc = "initResume"
    /\ Step(r, [Fetching("init", ChooseLang(r.haLang, r.env))
                    EXCEPT !.solo = r.solo, !.latest = r.latest])
    /\ UNCHANGED << resolverVars, storageThrows, started, lookupVars, script >>

\* switchLanguage(lang) and loadLanguage(lang) called directly: the fetch
\* is issued.
SwitchLanguageStart ==
    \E code \in RequestLangs :
        /\ Begin(Fetching("switch", Str(code)))
        /\ UNCHANGED << resolverVars, storageThrows, lookupVars, script >>

LoadLanguageStart ==
    \E code \in RequestLangs :
        /\ Begin(Fetching("load", Str(code)))
        /\ UNCHANGED << resolverVars, storageThrows, lookupVars, script >>

\* loadFallback() called directly: its fetch is issued.
LoadFallbackStart ==
    /\ Begin([Idle EXCEPT !.kind = "fallback", !.pc = "fbFetch", !.nFetch = 1])
    /\ UNCHANGED << resolverVars, storageThrows, lookupVars, script >>

\* A variant of the failure path that asks for the requested language once
\* more instead of the fallback.
RetryRequested(r) ==
    /\ Step(r, [r EXCEPT !.pc = "fetch", !.nFetch = @ + 1])
    /\ UNCHANGED resolverVars

\* loadLanguage hands over to loadFallback (the else branch, or the catch
\* block): the fallback fetch is issued, nothing else changes.
CallLoadFallback(r) ==
    /\ Step(r, [r EXCEPT !.pc = "fbFetch", !.nFetch = @ + 1])
    /\ UNCHANGED resolverVars

\* A variant of loadLanguage with a timeout on its fetch: when it fires the
\* call gives the pending fetch up and leaves the empty bundle.
LoadLanguageFetchTimesOut(r) ==
    /\ r.pc = "fetch"
    /\ \E outcome \in FetchOutcomes \cup { "timeout" } :
          IF outcome = "ok"
          THEN /\ Step(r, [r EXCEPT !.pc = "json"])
               /\ UNCHANGED resolverVars
          ELSE IF outcome = "timeout"
          THEN /\ translations' = EmptyObject
               /\ Step(r, [r EXCEPT !.pc = AfterLoad(r.kind)])
               /\ UNCHANGED << currentLang, stored >>
          ELSE CallLoadFallback(r)
    /\ UNCHANGED << storageThrows, started, lookupVars, script >>

\* The fetch of loadLanguage settles.
LoadLanguageFetchDone(r) ==
    /\ r.pc = "fetch"
    /\ \E outcome \in FetchOutcomes :
          IF outcome = "ok"
          THEN /\ Step(r, [r EXCEPT !.pc = "json"])
               /\ UNCHANGED resolverVars
          ELSE CallLoadFallback(r)
    /\ UNCHANGED << storageThrows, started, lookupVars, script >>

\* A variant of the installation that does not write the preference.
InstallLanguageUnsaved(r) ==
    /\ translations' = ServerFile(r.lang.val)
    /\ currentLang' = r.lang
    /\ stored' = stored
    /\ Step(r, [r EXCEPT !.reqOk = TRUE, !.pc = AfterLoad(r.kind)])

\* A variant of the installation that drops the answer to a request that is
\* no longer the most recent one.
InstallLanguageIfLatest(r) ==
    IF ~r.latest
    THEN /\ Step(r, [r EXCEPT !.reqOk = TRUE, !.pc = AfterLoad(r.kind)])
         /\ UNCHANGED resolverVars
    ELSE /\ translations' = ServerFile(r.lang.val)
         /\ currentLang' = r.lang
         /\ IF storageThrows
            THEN /\ stored' = stored
                 /\ Step(r, [r EXCEPT !.reqOk = TRUE, !.pc = "fbFetch", !.nFetch = @ + 1])
            ELSE /\ stored' = r.lang
                 /\ Step(r, [r EXCEPT !.reqOk = TRUE, !.pc = AfterLoad(r.kind)])

\* The body parsed: the bundle and the code are assigned, then the preference
\* is written; a throwing setItem lands in the catch block, like any error,
\* and the catch block calls loadFallback.
InstallLanguage(r) ==
    /\ translations' = ServerFile(r.lang.val)
    /\ currentLang' = r.lang
    /\ IF storageThrows
       THEN /\ stored' = stored
            /\ Step(r, [r EXCEPT !.reqOk = TRUE, !.pc = "fbFetch", !.nFetch = @ + 1])
       ELSE /\ stored' = r.lang
            /\ Step(r, [r EXCEPT !.reqOk = TRUE, !.pc = AfterLoad(r.kind)])

\* response.json() of loadLanguage settles.
LoadLanguageJsonDone(r) ==
    /\ r.pc = "json"
    /\ \E parsed \in BOOLEAN :
          IF parsed THEN InstallLanguage(r) ELSE CallLoadFallback(r)
    /\ UNCHANGED << storageThrows, started, lookupVars, script >>

\* A variant of loadFallback without its catch block: the failure leaves
\* the call as an error, up through the awaiting callers.
FallbackFailureUncaught(r) ==
    /\ Step(r, [r EXCEPT !.fb = "failed", !.raised = TRUE, !.pc = "done"])
    /\ UNCHANGED resolverVars

\* loadFallback's two failure branches (non-success status; catch): the empty
\* bundle is installed, currentLang is not assigned.
FallbackFailed(r) ==
    /\ translations' = EmptyObject
    /\ Step(r, [r EXCEPT !.fb = "failed", !.pc = AfterLoad(r.kind)])
    /\ UNCHANGED << currentLang, stored >>

\* A variant of loadFallback's success branch that also persists the
\* fallback code as the preference.
InstallFallbackPersisting(r) ==
    /\ translations' = ServerFile(fallbackLang.val)
    /\ currentLang' = fallbackLang
    /\ stored' = fallbackLang
    /\ Step(r, [r EXCEPT !.fb = "ok", !.pc = AfterLoad(r.kind)])

\* loadFallback's success branch.
InstallFallback(r) ==
    /\ translations' = ServerFile(fallbackLang.val)
    /\ currentLang' = fallbackLang
    /\ Step(r, [r EXCEPT !.fb = "ok", !.pc = AfterLoad(r.kind)])
    /\ UNCHANGED stored

\* The fetch of loadFallback settles.
LoadFallbackFetchDone(r) ==
    /\ r.pc = "fbFetch"
    /\ \E outcome \in FetchOutcomes :
          IF outcome = "ok"
          THEN /\ Step(r, [r EXCEPT !.pc = "fbJson"])
               /\ UNCHANGED resolverVars
          ELSE FallbackFailed(r)
    /\ UNCHANGED << storageThrows, started, lookupVars, script >>

\* response.json() of loadFallback settles.
LoadFallbackJsonDone(r) ==
    /\ r.pc = "fbJson"
    /\ \E parsed \in BOOLEAN :
          IF parsed THEN InstallFallback(r) ELSE FallbackFailed(r)
    /\ UNCHANGED << storageThrows, started, lookupVars, script >>

\* A variant of the payload: the language actually loaded.
EventLanguageLoaded(r) == currentLang

\* The payload of the languageChanged event: detail.language.
EventLanguage(r) == r.lang

\* switchLanguage after its await: dispatches the languageChanged event.
Notify(r) ==
    /\ r.pc = "notify"
    /\ Step(r, [r EXCEPT !.evs = Append(@, EventLanguage(r)), !.pc = "done"])
    /\ UNCHANGED << resolverVars, storageThrows, started, lookupVars, script >>

\* --------------------------------------------------- getAvailableLanguages
Arr(q) == [tag |-> "array", val |-> q]
\* A response body that JSON.parse rejects.
Malformed == [tag |-> "malformed", val |-> 0]

LanguagesKey == << "l", "a", "n", "g", "u", "a", "g", "e", "s" >>
Entry(code, name) ==
    Obj(<< "c", "o", "d", "e" >> :> Str(code) @@ << "n", "a", "m", "e" >> :> Str(name))
EnglishEntry == Entry(En, << "E", "n", "g", "l", "i", "s", "h" >>)
FrenchEntry == Entry(Fr, << "F", "r", "a", "n", "c", "a", "i", "s" >>)

\* What api/languages may answer with a success status: a document with a
\* languages sequence (two entries, or none), a document without the field,
\* or a body that does not parse.
ListingBodies ==
    { Obj(LanguagesKey :> Arr(<< EnglishEntry, FrenchEntry >>)),
      Obj(LanguagesKey :> Arr(<< >>)),
      EmptyObject,
      Malformed }

\* return [{ code: 'en', name: 'English' }]
FallbackListing == Arr(<< EnglishEntry >>)

\* A variant that answers a document without the field like a failure.
LanguagesOrFallback(data) ==
    IF Truthy(GetProp(data, LanguagesKey)) THEN GetProp(data, LanguagesKey)
    ELSE FallbackListing

\* data.languages || []
LanguagesOrEmpty(data) ==
    IF Truthy(GetProp(data, LanguagesKey)) THEN GetProp(data, LanguagesKey)
    ELSE Arr(<< >>)

AvailStart ==
    /\ Begin([Idle EXCEPT !.kind = "avail", !.pc = "availFetch", !.nFetch = 1])
    /\ UNCHANGED << resolverVars, storageThrows, lookupVars, script >>

\* The listing fetch settles: on a success status the body is read, otherwise
\* (no success status, or the catch block) the static list is returned.
AvailFetchDone(r) ==
    /\ r.pc = "availFetch"
    /\ \E outcome \in FetchOutcomes :
          IF outcome = "ok"
          THEN Step(r, [r EXCEPT !.reqOk = TRUE, !.pc = "availJson"])
          ELSE Step(r, [r EXCEPT !.ret = FallbackListing, !.pc = "done"])
    /\ UNCHANGED << resolverVars, storageThrows, started, lookupVars, script >>

\* What the call returns once the body has been read: the catch block's
\* way out for a body that does not parse, data.languages || [] otherwise.
ListingResult(body) ==
    IF body = Malformed THEN FallbackListing ELSE LanguagesOrEmpty(body)

\* response.json() of the listing settles.
AvailJsonDone(r) ==
    /\ r.pc = "availJson"
    /\ \E body \in ListingBodies :
          Step(r, [r EXCEPT !.doc = body, !.ret = ListingResult(body), !.pc = "done"])
    /\ UNCHANGED << resolverVars, storageThrows, started, lookupVars, script >>

\* The caller has its answer; the call is over.
Release(r) ==
    /\ r.pc = "done"
    /\ calls' = calls (-) SetToBag({ r })
    /\ UNCHANGED << resolverVars, storageThrows, started, lookupVars, script >>

Running == BagToSet(calls)

\* One step of some call in flight, per handler.
InitResumeStep == \E r \in Running : InitResume(r)
LoadLanguageFetchDoneStep == \E r \in Running : LoadLanguageFetchDone(r)
LoadLanguageJsonDoneStep == \E r \in Running : LoadLanguageJsonDone(r)
LoadFallbackFetchDoneStep == \E r \in Running : LoadFallbackFetchDone(r)
LoadFallbackJsonDoneStep == \E r \in Running : LoadFallbackJsonDone(r)
NotifyStep == \E r \in Running : Notify(r)
AvailFetchDoneStep == \E r \in Running : AvailFetchDone(r)
AvailJsonDoneStep == \E r \in Running : AvailJsonDone(r)
ReleaseStep == \E r \in Running : Release(r)

Next ==
    \/ InitStart
    \/ SwitchLanguageStart
    \/ LoadLanguageStart
    \/ LoadFallbackStart
    \/ AvailStart
    \/ InitResumeStep
    \/ LoadLanguageFetchDoneStep
    \/ LoadLanguageJsonDoneStep
    \/ LoadFallbackFetchDoneStep
    \/ LoadFallbackJsonDoneStep
    \/ NotifyStep
    \/ AvailFetchDoneStep
    \/ AvailJsonDoneStep
    \/ ReleaseStep

Spec == Init /\ [][Next]_vars

\* ------------------------------------------- every issued fetch completes
\* The page's own calls, init() and switchLanguage(), when every fetch and
\* every body read settles and the event loop resumes every awaiting call.
NextL ==
    \/ InitStart
    \/ SwitchLanguageStart
    \/ InitResumeStep
    \/ LoadLanguageFetchDoneStep
    \/ LoadLanguageJsonDoneStep
    \/ LoadFallbackFetchDoneStep
    \/ LoadFallbackJsonDoneStep
    \/ NotifyStep
    \/ ReleaseStep

SpecL ==
    /\ Init
    /\ [][NextL]_vars
    /\ WF_vars(InitResumeStep)
    /\ WF_vars(LoadLanguageFetchDoneStep)
    /\ WF_vars(LoadLanguageJsonDoneStep)
    /\ WF_vars(LoadFallbackFetchDoneStep)
    /\ WF_vars(LoadFallbackJsonDoneStep)
    /\ WF_vars(NotifyStep)

\* ------------------------------------------------- the lookup, on its own
\* Leaf strings a bundle may hold: every string over the characters of a
\* token up to MaxStrLen, and some longer ones (text around tokens, a token
\* in braces, tokens named like properties every object inherits).
TemplateChars == { "{", "}", "x", "y" }
Templates ==
    SeqsUpTo(TemplateChars, MaxStrLen)
        \cup { << "H", "i", " ", "{", "x", "}" >>,
               << "x", "{", "x", "}", "{", "y", "}", "y" >>,
               << "{", "{", "x", "}", "}" >>,
               << "{" >> \o ConstructorKey \o << "}" >>,
               << "{", "x", "}", "{" >> \o ToStringKey \o << "}" >> }

\* A bundle with the leaf s at "b" and at "a.b", and a number at "a.a".
BundleWith(s) ==
    Obj(<< "a" >> :> Obj(<< "b" >> :> Str(s) @@ << "a" >> :> Num(7))
          @@ << "b" >> :> Str(s))

\* The values this.translations may hold when t is called: the constructor's
\* empty object, a parsed bundle, or the JSON value null.
TestBundles == { EmptyObject, JsNull } \cup { BundleWith(s) : s \in Templates }

\* Key paths: every string over a, b and the dot up to MaxKeyLen, and the
\* names of inherited properties.
KeyChars == { "a", "b", "." }
TestKeys ==
    SeqsUpTo(KeyChars, MaxKeyLen)
        \cup { ConstructorKey,
               << "a", "." >> \o ToStringKey,
               << "b", "." >> \o ToStringKey,
               ToStringKey \o << ".", "a" >> }

\* The params argument: left out (undefined), or an object.
TestParams ==
    { Undefined,
      EmptyObject,
      Obj(<< "x" >> :> Str(<< "A", "d", "a" >>)),
      Obj(<< "x" >> :> Num(12) @@ << "y" >> :> Str(<< "B" >>)),
      Obj(<< "y" >> :> Str(<< "{", "x", "}" >>)) }

\* The default value of the parameter: params = {}.
ParamsOrDefault(params) == IF params.tag = "undefined" THEN EmptyObject ELSE params

InitT ==
    /\ translations \in TestBundles
    /\ currentLang = Str(En)
    /\ storageThrows = FALSE
    /\ stored = JsNull
    /\ calls = EmptyBag
    /\ started = 0
    /\ tKey = << >>
    /\ tParams = EmptyObject
    /\ tResult = Undefined
    /\ tAgain = Undefined
    /\ script = NotRun

\* A variant of t that keeps the interpolated text of a top-level entry in
\* the bundle, in place of its template.
TCallCaching ==
    /\ tResult.tag = "undefined"
    /\ \E key \in TestKeys, params \in TestParams :
        LET result == T(translations, key, ParamsOrDefault(params))
        IN  /\ tKey' = key
            /\ tParams' = params
            /\ tResult' = result
            /\ translations' =
                 IF /\ translations.tag = "object"
                    /\ HasOwnKey(key, translations)
                    /\ result.tag = "string"
                 THEN Obj([translations.val EXCEPT ![key] = result])
                 ELSE translations
    /\ UNCHANGED << currentLang, stored, storageThrows, calls, started, tAgain, script >>

\* A call t(key, params): what was asked and what came back is recorded
\* until the caller has taken it.  t reads this.translations and params and
\* assigns nothing.
TCall ==
    /\ tResult.tag = "undefined"
    /\ \E key \in TestKeys, params \in TestParams :
        /\ tKey' = key
        /\ tParams' = params
        /\ tResult' = T(translations, key, ParamsOrDefault(params))
    /\ UNCHANGED << resolverVars, storageThrows, calls, started, tAgain, script >>

\* The same call t(key, params) made a second time, the bundle being what
\* the first call left.
TCallAgain ==
    /\ tResult.tag # "undefined"
    /\ tAgain.tag = "undefined"
    /\ tAgain' = T(translations, tKey, ParamsOrDefault(tParams))
    /\ UNCHANGED << resolverVars, storageThrows, calls, started, tKey, tParams, tResult,
                    script >>

\* The caller has taken the result.
TTaken ==
    /\ tResult.tag # "undefined"
    /\ tKey' = << >>
    /\ tParams' = EmptyObject
    /\ tResult' = Undefined
    /\ tAgain' = Undefined
    /\ UNCHANGED << resolverVars, storageThrows, calls, started, script >>

NextT == TCall \/ TCallAgain \/ TTaken

SpecT == InitT /\ [][NextT]_vars

\* ---------------------------------------------------- the deployment script
\* Options the script may be started with, and how many of them.
MaxArgs == 2
Options == { "--crowdinsync", "--verbose" }
ArgLists == SeqsUpTo(Options, MaxArgs)

\* HA_HOST in the caller's environment ("" when unset), and the .env file
\* next to the script: absent, without a HA_HOST line, or with one.
Environs == { "", "10.0.0.5" }
DotEnvs ==
    { NoDotEnv,
      [exists |-> TRUE, sets |-> FALSE, host |-> ""],
      [exists |-> TRUE, sets |-> TRUE, host |-> ""],
      [exists |-> TRUE, sets |-> TRUE, host |-> "ha.lan"] }

\* Exit statuses of the commands the script runs (crowdin, ssh with the
\* remote command's status, docker): success, a failure, ssh's own failure.
CommandStatuses == { 0, 1, 255 }
\* Exit statuses of the local tar: success, or "exiting with failure status
\* due to previous errors" (a source path that is not there).
TarStatuses == { 0, 2 }

\* The page holds its constructor's state; the script is started with some
\* command line, environment and .env file.
InitD ==
    /\ translations = EmptyObject
    /\ currentLang = Str(En)
    /\ storageThrows = FALSE
    /\ stored = JsNull
    /\ calls = EmptyBag
    /\ started = 0
    /\ tKey = << >>
    /\ tParams = EmptyObject
    /\ tResult = Undefined
    /\ tAgain = Undefined
    /\ script \in { [NotRun EXCEPT !.pc = "parse", !.argv = a, !.environ = e, !.dotEnv = d] :
                      a \in ArgLists, e \in Environs, d \in DotEnvs }

pageVars == << resolverVars, storageThrows, calls, started, lookupVars >>

\* What a step leaves in the run's record: the step, the exit status of the
\* command that decides it, and the exit status of the archiving tar.
Ran(step, status, archive) == [step |-> step, status |-> status, archive |-> archive]

\* The script goes on to the step at `pc`, or ends with exit status `code`.
Goto(pc, entries) ==
    /\ script' = [script EXCEPT !.pc = pc, !.ran = @ \o entries]
    /\ UNCHANGED pageVars
ExitWith(code, entries) ==
    /\ script' = [script EXCEPT !.pc = "exited", !.exitCode = code, !.ran = @ \o entries]
    /\ UNCHANGED pageVars

\* The for loop over "$@": --crowdinsync anywhere sets CROWDIN_SYNC.
ParseArguments ==
    /\ script.pc = "parse"
    /\ script' = [script EXCEPT
                    !.pc = "config",
                    !.CROWDIN_SYNC = \E i \in DOMAIN script.argv : script.argv[i] = "--crowdinsync"]
    /\ UNCHANGED pageVars

\* The .env file, when there is one, is exported over the environment;
\* HA_HOST="${HA_HOST:-}".
LoadConfiguration ==
    /\ script.pc = "config"
    /\ script' = [script EXCEPT
                    !.pc = "validate",
                    !.HA_HOST = IF script.dotEnv.exists /\ script.dotEnv.sets
                                THEN script.dotEnv.host
                                ELSE script.environ]
    /\ UNCHANGED pageVars

\* if [ -z "$HA_HOST" ]; then ... exit 1
ValidateConfig ==
    /\ script.pc = "validate"
    /\ IF script.HA_HOST = ""
       THEN ExitWith(1, << Ran("validate", 1, 0) >>)
       ELSE Goto("sync", << Ran("validate", 0, 0) >>)

\* The Crowdin block: skipped without the option; exit 1 when the crowdin
\* command is not installed; under set -e a failing upload ends the script
\* with that command's status.
CrowdinSync ==
    /\ script.pc = "sync"
    /\ IF ~script.CROWDIN_SYNC
       THEN Goto("sshCheck", << >>)
       ELSE \E installed \in BOOLEAN, sources \in CommandStatuses, trans \in CommandStatuses :
               IF ~installed
               THEN ExitWith(1, << Ran("crowdinInstalled", 1, 0) >>)
               ELSE IF sources # 0
               THEN ExitWith(sources, << Ran("crowdinInstalled", 0, 0),
                                         Ran("uploadSources", sources, 0) >>)
               ELSE IF trans # 0
               THEN ExitWith(trans, << Ran("crowdinInstalled", 0, 0),
                                       Ran("uploadSources", 0, 0),
                                       Ran("uploadTranslations", trans, 0) >>)
               ELSE Goto("sshCheck", << Ran("crowdinInstalled", 0, 0),
                                        Ran("uploadSources", 0, 0),
                                        Ran("uploadTranslations", 0, 0) >>)

\* if ! ssh -q ... "exit"; then ... exit 1
SshCheck ==
    /\ script.pc = "sshCheck"
    /\ \E status \in CommandStatuses :
          IF status # 0
          THEN ExitWith(1, << Ran("sshCheck", status, 0) >>)
          ELSE Goto("containerCheck", << Ran("sshCheck", 0, 0) >>)

\* The container is listed: ssh ran docker ps and docker ps printed an id.
Listed(status, printed) == IF status = 0 /\ printed THEN 0 ELSE 1

\* A variant of the container check without its `| grep -q .`: it passes
\* whenever the ssh command succeeds, whatever docker ps printed.
ContainerCheckWithoutGrep ==
    /\ script.pc = "containerCheck"
    /\ \E status \in CommandStatuses, printed \in BOOLEAN :
          IF status # 0
          THEN ExitWith(1, << Ran("containerCheck", Listed(status, printed), 0) >>)
          ELSE Goto("transfer", << Ran("containerCheck", Listed(status, printed), 0) >>)

\* if ! ssh ... "docker ps -q -f name=$CONTAINER" | grep -q .; then ... exit 1
\* The pipeline's status is grep's: success when anything was printed.
ContainerCheck ==
    /\ script.pc = "containerCheck"
    /\ \E status \in CommandStatuses, printed \in BOOLEAN :
          IF Listed(status, printed) # 0
          THEN ExitWith(1, << Ran("containerCheck", 1, 0) >>)
          ELSE Goto("transfer", << Ran("containerCheck", 0, 0) >>)

\* tar czf - ... 2>/dev/null | ssh ... "docker exec -i ... tar xzf -": the
\* pipeline's status is that of its last command, the ssh (no pipefail), so
\* set -e ends the script on a failing ssh and not on a failing tar.
DeployFiles ==
    /\ script.pc = "transfer"
    /\ \E archive \in TarStatuses, remote \in CommandStatuses :
          IF remote # 0
          THEN ExitWith(remote, << Ran("transfer", remote, archive) >>)
          ELSE Goto("restart", << Ran("transfer", 0, archive) >>)

\* ssh ... "docker restart $CONTAINER", then the closing echo lines: the
\* script ends with status 0.
RestartContainer ==
    /\ script.pc = "restart"
    /\ \E status \in CommandStatuses :
          IF status # 0
          THEN ExitWith(status, << Ran("restart", status, 0) >>)
          ELSE ExitWith(0, << Ran("restart", 0, 0) >>)

NextD ==
    \/ ParseArguments
    \/ LoadConfiguration
    \/ ValidateConfig
    \/ CrowdinSync
    \/ SshCheck
    \/ ContainerCheck
    \/ DeployFiles
    \/ RestartContainer

SpecD == InitD /\ [][NextD]_vars

\* ------------------------------------------------------------- properties
\* getCurrentLanguage()
GetCurrentLanguage == currentLang

\* The calls that run loadLanguage: init, switchLanguage, and direct calls.
LoadKinds == { "init", "switch", "load" }
\* loadLanguage has returned to its caller.
LoadReturned(r) == r.kind \in LoadKinds /\ r.pc \in { "notify", "done" }

\* C1: in every reachable state currentLang is the code of the bundle held
\* in translations (the empty bundle counting as the default language's, as
\* the constructor leaves it): the bundle never changes without the code.
\* Stated for a browser whose preference store works.
C1_CodeMatchesBundle ==
    ~storageThrows =>
        IF translations = EmptyObject
        THEN currentLang = fallbackLang
        ELSE translations = ServerFile(currentLang.val)

\* C2: after a loadLanguage(L) call that ran alone, with a working preference
\* store, getCurrentLanguage() is L when the fetch for L succeeded and the
\* fallback code 'en' in every other case.
C2_CurrentLanguageAfterLoad ==
    \A r \in Running :
        (r.kind = "load" /\ r.pc = "done" /\ r.solo /\ ~storageThrows)
            => /\ r.reqOk => GetCurrentLanguage = r.lang
               /\ ~r.reqOk => GetCurrentLanguage = fallbackLang

\* How many calls of bag b are in the state r, whether alone or not.
SameState(x, r) == Overtaken(x) = Overtaken(r)
Copies(b, r) ==
    CopiesIn([r EXCEPT !.solo = TRUE, !.latest = TRUE], b)
        + CopiesIn([r EXCEPT !.solo = FALSE, !.latest = TRUE], b)
        + CopiesIn([r EXCEPT !.solo = FALSE, !.latest = FALSE], b)

\* In this step a call in state r has moved on to state r2 (no call was
\* started in it, so every other call is exactly as it was).
Moved(r, r2) ==
    /\ ~SameState(r, r2)
    /\ started' = started
    /\ CopiesIn(r, calls') = CopiesIn(r, calls) - 1
    /\ CopiesIn(r2, calls') = CopiesIn(r2, calls) + 1

\* C3 (the state part): a loadLanguage whose fetch failed has invoked
\* loadFallback.
C3_FailedLoadFellBack ==
    \A r \in Running : (LoadReturned(r) /\ ~r.reqOk) => (r.fb # "none" /\ r.nFetch = 2)

\* C3: when the fetch for the requested language fails, loadLanguage invokes
\* loadFallback, and the persisted preference changes in no step of a failed
\* load or of loadFallback: it changes only in the step that installs a
\* successfully fetched language, to that language.
C3_FailedLoadKeepsPreference ==
    /\ []C3_FailedLoadFellBack
    /\ [][stored' # stored =>
            \E r \in Running :
                /\ r.pc = "json"
                /\ stored' = r.lang
                /\ Moved(r, [r EXCEPT !.reqOk = TRUE, !.pc = AfterLoad(r.kind)])]_vars

\* C3 witness: a load of 'fr' failed and fell back to English while the
\* preference stored before the call ('fr') is still there.
C3_Witness ==
    \E r \in Running :
        /\ r.kind = "load" /\ r.pc = "done" /\ r.solo
        /\ ~r.reqOk /\ r.fb = "ok"
        /\ currentLang = fallbackLang
        /\ stored = Str(Fr)
        /\ started = 1

\* C4: once a loadLanguage(code) whose fetch succeeded and whose body parsed
\* has returned (no other call in flight), the resolver holds the fetched
\* bundle with currentLang = code, and the persisted preference is code.
C4_SuccessfulLoadInstalled ==
    \A r \in Running :
        (LoadReturned(r) /\ r.solo /\ r.reqOk)
            => /\ translations = ServerFile(r.lang.val)
               /\ currentLang = r.lang
               /\ stored = r.lang

\* The bundles a resolver can hold and look keys up in: a loaded bundle or
\* the empty one.
UsableBundles == { EmptyObject } \cup { ServerFile(code) : code \in Langs }

\* C5: no resolver operation raises an error to its caller, whatever the
\* outcomes of the requested and the fallback fetch: no call ends by
\* throwing, every finished getAvailableLanguages has a list to return, and
\* the resolver holds a loaded bundle or the empty bundle.
C5_NothingRaised ==
    /\ \A r \in Running :
          /\ ~r.raised
          /\ (r.kind = "avail" /\ r.pc = "done") => r.ret.tag = "array"
    /\ translations \in UsableBundles

\* C5 witness: a call has finished after both its fetch and the fallback
\* fetch failed, leaving the empty bundle.
C5_Witness ==
    \E r \in Running :
        /\ r.kind \in LoadKinds /\ r.pc = "done"
        /\ ~r.reqOk /\ r.fb = "failed" /\ ~r.raised
        /\ translations = EmptyObject

\* C6: every switchLanguage(code) emits exactly one languageChanged event,
\* carrying the requested code, and only after its loadLanguage (with any
\* fallback load) has finished: none before the call is done with loading,
\* exactly the one when the call has ended (its load installed the language,
\* or its fallback load has ended); no other operation emits one.
C6_OneEventWithRequestedCode ==
    \A r \in Running :
        /\ r.kind # "switch" => r.evs = << >>
        /\ (r.kind = "switch" /\ r.pc # "done") => r.evs = << >>
        /\ (r.kind = "switch" /\ r.pc = "done")
              => /\ r.evs = << r.lang >>
                 /\ IF r.reqOk /\ ~storageThrows
                    THEN r.fb = "none"
                    ELSE r.fb \in { "ok", "failed" }

\* C6 witness: the event says 'fr' although the load fell back to English.
C6_Witness ==
    \E r \in Running :
        /\ r.kind = "switch" /\ r.pc = "done" /\ r.solo
        /\ r.evs = << Str(Fr) >>
        /\ ~r.reqOk /\ r.fb = "ok"
        /\ currentLang = fallbackLang

\* A source of the language is present: it holds a non-empty string.
Present(v) == v.tag = "string" /\ v.val # << >>

\* The primary subtag of a locale: what stands before its first hyphen.
PrimarySubtag(locale) ==
    LET hyphens == { i \in 1 .. Len(locale) : locale[i] = "-" }
    IN  IF hyphens = { } THEN locale
        ELSE SubSeq(locale, 1, (CHOOSE i \in hyphens : \A j \in hyphens : i <= j) - 1)

\* The language init() is to ask for, by priority: the URL parameter, the
\* persisted preference, the browser locale's primary subtag, 'en'.
Preferred(url, pref) ==
    IF Present(url) THEN url ELSE IF Present(pref) THEN pref ELSE JsNull
LocaleOrDefault(env) ==
    IF Present(env.language) THEN Str(PrimarySubtag(env.language.val))
    ELSE IF Present(env.userLanguage) THEN Str(PrimarySubtag(env.userLanguage.val))
    ELSE Str(En)

\* C9: init() requests exactly one language from loadLanguage, chosen by
\* strict priority: the URL parameter 'lang' if present (non-empty), else the
\* persisted preference if present, else the browser locale cut to its
\* primary subtag, else 'en'.  The first two are read when init() starts,
\* the request is made when it resumes.
C9_InitPriority ==
    [][/\ \A r2 \in BagToSet(calls') :
            (r2.pc = "initResume" /\ Copies(calls', r2) > Copies(calls, r2))
                => r2.haLang = Preferred(r2.env.url, stored)
       /\ \A r \in Running :
            (r.pc = "initResume" /\ started' = started
                 /\ CopiesIn(r, calls') < CopiesIn(r, calls))
                => \E r2 \in BagToSet(calls') :
                      /\ Moved(r, r2)
                      /\ r2.kind = "init" /\ r2.pc = "fetch" /\ r2.nFetch = 1
                      /\ r2.lang = IF Present(r.haLang) THEN r.haLang
                                   ELSE LocaleOrDefault(r.env)
       /\ \A r \in Running, r2 \in BagToSet(calls') :
            (r.kind = "init" /\ r2.pc = "fetch" /\ Moved(r, r2))
                => r.pc = "initResume"]_vars

\* C9 witness: init() asks for 'de', the URL parameter, although the
\* preference 'fr' is stored.
C9_Witness ==
    \E r \in Running :
        /\ r.kind = "init" /\ r.pc = "fetch" /\ r.solo
        /\ r.lang = Str(De)
        /\ stored = Str(Fr)
        /\ started = 1

\* C10 (the result): what a finished getAvailableLanguages returns, by the
\* outcome of the listing fetch.
C10_ListingReturned ==
    \A r \in Running :
        (r.kind = "avail" /\ r.pc = "done")
            => /\ (r.reqOk /\ r.doc.tag = "object" /\ LanguagesKey \in DOMAIN r.doc.val)
                      => r.ret = r.doc.val[LanguagesKey]
               /\ (r.reqOk /\ r.doc.tag = "object" /\ LanguagesKey \notin DOMAIN r.doc.val)
                      => r.ret = Arr(<< >>)
               /\ (~r.reqOk \/ r.doc.tag = "malformed")
                      => r.ret = Arr(<< EnglishEntry >>)
               /\ ~r.raised

\* C10: getAvailableLanguages returns the document's languages field when
\* the fetch succeeds and the field is there, an empty sequence when the
\* field is absent, and [{code:'en', name:'English'}] on any failure; it
\* never throws, and no step of it changes the bundle, the current language
\* or the persisted preference.
C10_Listing ==
    /\ []C10_ListingReturned
    /\ [][(\E r \in Running \cup BagToSet(calls') :
              r.kind = "avail" /\ Copies(calls', r) # Copies(calls, r))
            => UNCHANGED resolverVars]_vars

\* C10 witness: the listing came without a languages field and the call
\* returned the empty sequence.
C10_Witness ==
    \E r \in Running :
        /\ r.kind = "avail" /\ r.pc = "done"
        /\ r.reqOk /\ r.doc = EmptyObject
        /\ r.ret = Arr(<< >>)

\* C13 (what a completing call writes): the call whose fetch, or whose
\* body, has just been delivered writes the resolver state, whatever other
\* calls are in flight and whichever was requested last: a parsed body
\* installs its language, a fallback load its outcome; every other step of a
\* call leaves the resolver state as it is.
Completes(r, r2) ==
    IF r.pc = "json" /\ r2.reqOk
    THEN /\ translations' = ServerFile(r.lang.val)
         /\ currentLang' = r.lang
         /\ stored' = IF storageThrows THEN stored ELSE r.lang
    ELSE IF r.pc \in { "fbFetch", "fbJson" } /\ r2.fb = "ok"
    THEN /\ translations' = ServerFile(fallbackLang.val)
         /\ currentLang' = fallbackLang
         /\ stored' = stored
    ELSE IF r.pc \in { "fbFetch", "fbJson" } /\ r2.fb = "failed"
    THEN /\ translations' = EmptyObject
         /\ UNCHANGED << currentLang, stored >>
    ELSE UNCHANGED resolverVars

\* C13: with several switchLanguage / loadLanguage calls in flight the
\* fetches complete in any order; each completion overwrites the resolver
\* state, so the state left when all have completed is the one installed by
\* the last fetch to complete, whether or not it belongs to the most
\* recently requested call; no call is cancelled or dropped as stale (a
\* call leaves only when it is done), and nothing but a completion changes
\* the resolver state.
C13_LastCompletionWins ==
    [][IF calls' = calls \/ started' # started
       THEN UNCHANGED resolverVars
       ELSE \A r \in BagToSet(calls (-) calls') :
               \/ /\ r.pc = "done"
                  /\ calls' (-) calls = EmptyBag
                  /\ UNCHANGED resolverVars
               \/ \E r2 \in BagToSet(calls' (-) calls) : Moved(r, r2) /\ Completes(r, r2)]_vars

\* C13 witness: switchLanguage('fr') was called, then switchLanguage('en');
\* both fetches succeeded and both calls are finished, and the resolver is
\* left in French: the answer to the earlier request was the last to arrive.
C13_Witness ==
    \E r \in Running, r2 \in Running :
        /\ r.kind = "switch" /\ r.lang = Str(Fr) /\ ~r.latest
        /\ r2.kind = "switch" /\ r2.lang = Str(En) /\ r2.latest
        /\ r.pc = "done" /\ r2.pc = "done"
        /\ r.reqOk /\ r2.reqOk /\ r.fb = "none" /\ r2.fb = "none"
        /\ currentLang = Str(Fr) /\ translations = ServerFile(Fr) /\ stored = Str(Fr)

\* C14: in every reachable state, whatever the interleaving of the calls
\* and the outcomes of their fetches, and provided the writes of the
\* preference succeed, currentLang is the fallback code 'en' or the
\* persisted preference.
C14_CurrentIsFallbackOrPreference ==
    ~storageThrows => (currentLang = fallbackLang \/ currentLang = stored)

\* C14 witness: two overlapping calls have finished, one of them a
\* switchLanguage('fr') whose answer came last; both currentLang and the
\* preference are 'fr'.
C14_Witness ==
    /\ ~storageThrows
    /\ currentLang = Str(Fr) /\ stored = Str(Fr)
    /\ \E r \in Running, r2 \in Running :
          /\ r.kind = "switch" /\ r.lang = Str(Fr) /\ r.pc = "done" /\ r.reqOk
          /\ r2.kind = "init" /\ r2.pc = "done" /\ r2.lang = Str(De) /\ r2.reqOk

\* The call is waiting for a fetch it has issued.
FetchPending(r) == r.pc \in { "fetch", "fbFetch" }

\* C16 (no event while waiting): a call that waits for a fetch, or for the
\* body of its response, has emitted no languageChanged event.
C16_NoEventWhilePending ==
    \A r \in Running : r.pc \in { "fetch", "json", "fbFetch", "fbJson" } => r.evs = << >>

\* C16: the resolver state changes only in a step that delivers a response
\* (the body of loadLanguage's fetch, the status or the body of
\* loadFallback's) to the call that made the request: neither issuing a
\* fetch nor waiting for it changes translations, currentLang or the
\* preference.  While the only call in flight keeps waiting for its fetch
\* the resolver stays in its prior state, and the call has emitted no event:
\* nothing but the fetch's completion moves it on.
C16_PendingFetchChangesNothing ==
    /\ []C16_NoEventWhilePending
    /\ [][resolverVars' # resolverVars
            => \E r \in Running, r2 \in BagToSet(calls') :
                  /\ r.pc \in { "json", "fbFetch", "fbJson" }
                  /\ Moved(r, r2)]_vars
    /\ [][\A r \in Running :
              (BagCardinality(calls') = 1 /\ FetchPending(r)
                  /\ Copies(calls', r) >= Copies(calls, r))
                 => UNCHANGED resolverVars]_vars
    /\ [][\A r \in Running, r2 \in BagToSet(calls') :
              (r.pc = "fetch" /\ Moved(r, r2))
                 => r2.pc \in { "json", "fbFetch" } /\ UNCHANGED resolverVars]_vars

\* C16 witness: French is installed; switchLanguage('en') has issued its
\* fetch and waits for it: the resolver still holds French, and no event
\* has been emitted.
C16_Witness ==
    \E r \in Running :
        /\ r.kind = "switch" /\ r.pc = "fetch" /\ r.lang = Str(En) /\ r.solo
        /\ r.evs = << >>
        /\ currentLang = Str(Fr) /\ translations = ServerFile(Fr) /\ stored = Str(Fr)
        /\ started = MaxCalls

\* C17 (the fetches): a call that runs loadLanguage has issued one fetch
\* while it deals with the requested bundle and two once it is in
\* loadFallback, never more; when loadFallback has ended the call is back
\* with its caller.
C17_AtMostTwoFetches ==
    \A r \in Running :
        r.kind \in LoadKinds
            => /\ r.nFetch <= 2
               /\ r.pc \in { "fetch", "json" } => r.nFetch = 1
               /\ r.pc \in { "fbFetch", "fbJson" } => r.nFetch = 2 /\ r.fb = "none"
               /\ r.fb # "none" => r.nFetch = 2 /\ r.pc \in { "notify", "done" }

\* Every init() and switchLanguage() call in flight has completed, and each
\* switchLanguage has emitted its event.
AllCompleted ==
    \A r \in Running :
        /\ r.pc = "done"
        /\ r.kind = "switch" => r.evs = << r.lang >>

\* C17: each loadLanguage issues at most two fetches (the requested bundle,
\* then at most one fallback bundle) and does not retry; so, every issued
\* fetch completing, every init() and switchLanguage() call eventually
\* completes and every switchLanguage() eventually emits its event: from
\* some point on every call still held is a completed one.
C17_CallsTerminate ==
    /\ []C17_AtMostTwoFetches
    /\ <>[]AllCompleted

\* C17 witness: a switchLanguage('fr') whose two fetches both failed has
\* completed and emitted its event.
C17_Witness ==
    \E r \in Running :
        /\ r.kind = "switch" /\ r.lang = Str(Fr) /\ r.pc = "done"
        /\ r.nFetch = 2 /\ r.fb = "failed" /\ ~r.reqOk
        /\ r.evs = << Str(Fr) >>

\* ---------------------------------------------- properties of the lookup
\* t has been called and its result is at hand.
TReturned == tResult.tag # "undefined"

\* What the bundle itself holds at a path of segments: the value reached
\* through mappings' own entries, Absent where a segment is missing or the
\* value to descend into is not a mapping.
Absent == [tag |-> "absent", val |-> 0]
RECURSIVE BundleValue(_, _, _)
BundleValue(v, segments, i) ==
    IF i > Len(segments) THEN v
    ELSE IF v.tag = "object" /\ segments[i] \in DOMAIN v.val
         THEN BundleValue(v.val[segments[i]], segments, i + 1)
         ELSE Absent

\* C7: for a keyPath that is not present in the active bundle, t(keyPath)
\* returns exactly the keyPath string.
C7_MissingKeyReturnsKey ==
    (TReturned /\ BundleValue(translations, Split(tKey, "."), 1).tag = "absent")
        => tResult = Str(tKey)

\* The substitution as specified: every token {name} (name a run of
\* word characters) whose name is a key of params gives way to the display
\* form of params[name], every other character stays.
RECURSIVE Substituted(_, _, _)
Substituted(s, i, params) ==
    IF i > Len(s) THEN << >>
    ELSE LET j == TokenEnd(s, i)
             name == SubSeq(s, i + 1, j - 1)
         IN  IF j # 0 /\ name \in DOMAIN params.val
             THEN ToDisplay(params.val[name]) \o Substituted(s, j + 1, params)
             ELSE << s[i] >> \o Substituted(s, i + 1, params)

\* C8: for a keyPath resolving to a string, t returns that string with the
\* tokens whose name is a key of params replaced and every token whose name
\* is absent from params left as it is.
C8_TokensReplaced ==
    LET value == BundleValue(translations, Split(tKey, "."), 1)
    IN  (TReturned /\ value.tag = "string")
            => tResult = Str(Substituted(value.val, 1, ParamsOrDefault(tParams)))

\* C11 (the results): a second call t(key, params) with the same arguments
\* returns what the first one returned.
C11_SameResult == tAgain.tag # "undefined" => tAgain = tResult

\* C11: t is pure with respect to the resolver state: no call to t changes
\* translations, currentLang or the persisted preference, and two calls with
\* identical arguments return identical results.
C11_LookupIsPure ==
    /\ []C11_SameResult
    /\ [][(tResult' # tResult \/ tAgain' # tAgain)
            => UNCHANGED << translations, currentLang, stored >>]_vars

\* C11 witness: t('b', {x: 'Ada'}) was called twice on a bundle holding
\* "{x}" at b, gave 'Ada' both times, and the bundle still holds "{x}".
C11_Witness ==
    /\ tKey = << "b" >>
    /\ tParams = Obj(<< "x" >> :> Str(<< "A", "d", "a" >>))
    /\ tResult = Str(<< "A", "d", "a" >>)
    /\ tAgain = tResult
    /\ translations = BundleWith(<< "{", "x", "}" >>)

\* C15: whenever the bundle is empty (as the constructor leaves it before
\* init() has completed, and as loadFallback leaves it when the requested
\* and the fallback fetch have both failed), t(keyPath) returns keyPath,
\* for every keyPath.
C15_EmptyBundleReturnsKey ==
    (TReturned /\ translations = EmptyObject) => tResult = Str(tKey)

\* ------------------------------------- properties of the deployment script
\* --crowdinsync is among the arguments the script was started with.
SyncRequested == \E i \in DOMAIN script.argv : script.argv[i] = "--crowdinsync"

\* No host is configured: the .env file sets an empty HA_HOST, or it sets
\* none and the environment has none.
HostMissing ==
    \/ script.dotEnv.sets /\ script.dotEnv.host = ""
    \/ ~script.dotEnv.sets /\ script.environ = ""

\* The step was run / was run and its command failed / succeeded.
Did(step) == \E i \in DOMAIN script.ran : script.ran[i].step = step
Failed(step) ==
    \E i \in DOMAIN script.ran : script.ran[i].step = step /\ script.ran[i].status # 0
Passed(step) ==
    \E i \in DOMAIN script.ran : script.ran[i].step = step /\ script.ran[i].status = 0

\* A precondition has been found not to hold: no host configured (once the
\* configuration has been validated), the crowdin tool missing, the SSH host
\* unreachable, the container not running.
PreconditionFailure ==
    \/ HostMissing /\ script.pc \notin { "parse", "config", "validate" }
    \/ Failed("crowdinInstalled")
    \/ Failed("sshCheck")
    \/ Failed("containerCheck")

Exited == script.pc = "exited"

\* C12: on every precondition failure (HA_HOST not set, crowdin missing with
\* --crowdinsync, SSH host unreachable, container not running) the script
\* has exited with code 1 and has run neither the transfer nor the restart;
\* it exits with code 0 only when the whole sequence, through a successful
\* container restart, has been run.
C12_ExitCodes ==
    /\ PreconditionFailure
          => /\ Exited /\ script.exitCode = 1
             /\ ~Did("transfer") /\ ~Did("restart")
    /\ Failed("crowdinInstalled") => SyncRequested
    /\ (Exited /\ script.exitCode = 0)
          => /\ ~HostMissing
             /\ Passed("sshCheck") /\ Passed("containerCheck")
             /\ Passed("transfer") /\ Passed("restart")
             /\ script.ran[Len(script.ran)].step = "restart"
             /\ SyncRequested
                   => Passed("uploadSources") /\ Passed("uploadTranslations")

\* C12 witness: with --crowdinsync, a host and a reachable SSH server, the
\* script found the container not running and exited with code 1.
C12_Witness ==
    /\ Exited /\ script.exitCode = 1
    /\ SyncRequested /\ Passed("uploadTranslations")
    /\ Passed("sshCheck") /\ Failed("containerCheck")
    /\ ~Did("transfer")

\* The place of a step in the script's sequence.
StepOrder ==
    << "validate", "crowdinInstalled", "uploadSources", "uploadTranslations",
       "sshCheck", "containerCheck", "transfer", "restart" >>
Rank(step) == CHOOSE k \in DOMAIN StepOrder : StepOrder[k] = step
SyncSteps == { "crowdinInstalled", "uploadSources", "uploadTranslations" }

\* The step succeeded: the command that decides it did, and so did the tar
\* that makes the archive.
Succeeded(entry) == entry.status = 0 /\ entry.archive = 0

\* C18: the steps run in the fixed order validation, translation sync (only
\* with --crowdinsync), SSH check, container check, transfer, restart, none
\* left out, and a step is run only if every earlier step succeeded: the
\* restart is never issued unless the SSH check, the container check and
\* the transfer have all succeeded.
C18_StepsInOrder ==
    \A j \in DOMAIN script.ran :
        LET step == script.ran[j].step
        IN  /\ \A i \in 1 .. j - 1 :
                  /\ Rank(script.ran[i].step) < Rank(step)
                  /\ Succeeded(script.ran[i])
            /\ step \in SyncSteps => SyncRequested
            /\ \A k \in 1 .. Rank(step) - 1 :
                  (StepOrder[k] \notin SyncSteps \/ SyncRequested) => Did(StepOrder[k])
==========================================================================
